---- MODULE Spec2Model ----
(***************************************************************************)
(* A model of four source files of pydantic-core:                          *)
(*   src/validators/dict.rs                    the dict validator          *)
(*   src/serializers/type_serializers/typed_dict.rs  typed-dict serializer *)
(*   src/serializers/type_serializers/timedelta.rs   timedelta serializer  *)
(*   src/input/datetime.rs                     temporal value conversions  *)
(***************************************************************************)
EXTENDS Integers, Sequences, FiniteSets, TLC

(***************************************************************************)
(* Bounds of the model.                                                    *)
(***************************************************************************)
\* longest input mapping handed to the dict validator
MaxLen == 3

(***************************************************************************)
(* Rust's Option.                                                          *)
(***************************************************************************)
None == [some |-> FALSE]

Some(x) == [some |-> TRUE, v |-> x]

(***************************************************************************)
(* The state.                                                              *)
(***************************************************************************)
VARIABLES
  v_pc,          \* position in build_validate: "off", "check", "key", "value", "done"
  dict,          \* the input mapping
  min_items,     \* DictValidator.min_items
  max_items,     \* DictValidator.max_items
  v_i,           \* index of the entry the for loop is at
  output,        \* the output PyDict
  errors,        \* the errors Vec
  output_key,    \* output_key of the current iteration
  key_calls,     \* indices of the entries the key validator was applied to
  value_calls,   \* indices of the entries the value validator was applied to
  v_result,      \* what the call returned
  t_in,          \* the value a chain of temporal conversions started from
  t_val,         \* the value the chain has reached
  t_trace,       \* the conversions applied so far
  s_schema,      \* the schema the serializer is built from: fields, extra_behavior
  s_ser,         \* the TypedDictSerializer that build returned
  s_call,        \* the call made on it: method, value, include, exclude, extra
  s_result,      \* what the call returned
  s_warnings,    \* extra.warnings: the fallbacks recorded
  td_call,       \* the call made on the TimeDeltaSerializer, with its arguments
  td_result,     \* what that call returned
  td_warnings    \* extra.warnings of that call

vvars == <<v_pc, dict, min_items, max_items, v_i, output, errors, output_key,
           key_calls, value_calls, v_result>>

tvars == <<t_in, t_val, t_trace>>

svars == <<s_schema, s_ser, s_call, s_result, s_warnings>>

dvars == <<td_call, td_result, td_warnings>>

vars == <<vvars, tvars, svars, dvars>>

(***************************************************************************)
(* src/validators/dict.rs                                                  *)
(***************************************************************************)
\* The keys an input mapping may hold.  What the key validator makes of each
\* is fixed by KeyValidate below.
Keys == {"a", "a2", "b", "kbad", "kfatal", "unh"}

\* The values an input mapping may hold (see ValueValidate).
Values == {"v", "w", "vbad", "vfatal"}

\* A ValLineError: an error kind and a location path, read outside-in.
ValLineError(kind, loc) == [kind |-> kind, loc |-> loc]

\* ValLineError::with_outer_location: the enclosing frame's item goes in front
\* of whatever location the error already carries.
with_outer_location(err, item) == [err EXCEPT !.loc = <<item>> \o @]

\* key.as_loc_item(): the original key of the entry as a location item.
as_loc_item(key) == key

\* key_validator.validate(key): the child validator of the keys.  "a" and "a2"
\* normalise to the same key, "kbad" fails with two line errors (the second
\* already carries the location item "0"), "kfatal" fails with an error that is not
\* LineErrors, and "unh" normalises to an object that cannot be hashed.
KeyValidate(key) ==
  CASE key = "a" -> [tag |-> "Ok", val |-> "A"]
    [] key = "a2" -> [tag |-> "Ok", val |-> "A"]
    [] key = "b" -> [tag |-> "Ok", val |-> "B"]
    [] key = "unh" -> [tag |-> "Ok", val |-> "UNHASHABLE"]
    [] key = "kbad" -> [tag |-> "LineErrors",
                        errs |-> << ValLineError([name |-> "StrType"], << >>),
                                    ValLineError([name |-> "TooShort", min_length |-> 1], <<"0">>) >>]
    [] OTHER -> [tag |-> "InternalErr", raised_by |-> "key_validator"]

\* value_validator.validate(value): the child validator of the values.
ValueValidate(value) ==
  CASE value = "v" -> [tag |-> "Ok", val |-> "V"]
    [] value = "w" -> [tag |-> "Ok", val |-> "W"]
    [] value = "vbad" -> [tag |-> "LineErrors",
                          errs |-> << ValLineError([name |-> "IntType"], << >>) >>]
    [] OTHER -> [tag |-> "InternalErr", raised_by |-> "value_validator"]

\* All sequences over S of length at most n.
SeqUpTo(S, n) == UNION {[1..m -> S] : m \in 0..n}

\* A mapping holds each key once.
DistinctKeys(d) == \A i, j \in 1..Len(d) : i # j => d[i][1] # d[j][1]

\* The input mappings: entries in iteration order, each key once.
Dicts == {d \in SeqUpTo(Keys \X Values, MaxLen) : DistinctKeys(d)}

\* The min_items a schema may set.
MinLimits == {None, Some(1)}

\* The max_items a schema may set.
MaxLimits == {None, Some(2)}

\* PyDict::set_item on a mapping kept as its entries in insertion order: a key
\* already present keeps its place and takes the new value, a new key goes
\* to the end.
HasKey(d, k) == \E i \in 1..Len(d) : d[i][1] = k

IndexOfKey(d, k) == CHOOSE i \in 1..Len(d) : d[i][1] = k

\* PyDictSetItem with a present key moved to the end.
PyDictSetItem_MoveToEnd(d, k, val) ==
  Append(SelectSeq(d, LAMBDA e : e[1] # k), <<k, val>>)

PyDictSetItem(d, k, val) ==
  IF HasKey(d, k) THEN [d EXCEPT ![IndexOfKey(d, k)] = <<k, val>>]
  ELSE Append(d, <<k, val>>)

\* output.set_item(key, value): a key that cannot be hashed raises.
set_item(d, k, val) ==
  IF k = "UNHASHABLE" THEN [tag |-> "Err"]
  ELSE [tag |-> "Ok", dict |-> PyDictSetItem(d, k, val)]

NoResult == [tag |-> "none"]

\* A validator built from a schema, about to be applied to an input mapping.
ValidatorStart ==
  /\ v_pc = "check"
  /\ dict \in Dicts
  /\ min_items \in MinLimits
  /\ max_items \in MaxLimits
  /\ v_i = 1
  /\ output = << >>
  /\ errors = << >>
  /\ output_key = None
  /\ key_calls = << >>
  /\ value_calls = << >>
  /\ v_result = NoResult

\* ValError::new(kind, input): a LineErrors of one error with no location.
ValErrorNew(kind) == [tag |-> "LineErrors", errs |-> << ValLineError(kind, << >>) >>]

\* LoopResult with the partially built output returned whatever was recorded.
LoopResult_KeepsOutput(errs, out) == [tag |-> "Ok", dict |-> out]

\* What the call returns once the for loop is over.
LoopResult(errs, out) ==
  IF errs = << >> THEN [tag |-> "Ok", dict |-> out]
  ELSE [tag |-> "LineErrors", errs |-> errs]

Return(r) ==
  /\ v_pc' = "done"
  /\ v_result' = r

\* Abort with the errors recorded so far returned when there are any.
Abort_RecordedFirst(err, errs) ==
  IF errs = << >> THEN err ELSE [tag |-> "LineErrors", errs |-> errs]

\* Err(err) => return Err(err): an error of a child validator that is not
\* LineErrors leaves the call as it is; the errors recorded so far are dropped.
Abort(err, errs) == err

\* CheckLength with the max_items check left out.
CheckLength_NoMax ==
  /\ v_pc = "check"
  /\ IF min_items.some /\ Len(dict) < min_items.v
     THEN Return(ValErrorNew([name |-> "TooShort", min_length |-> min_items.v]))
     ELSE IF Len(dict) = 0
     THEN Return(LoopResult(errors, output))
     ELSE /\ v_pc' = "key"
          /\ v_result' = v_result
  /\ UNCHANGED <<dict, min_items, max_items, v_i, output, errors, output_key,
                 key_calls, value_calls>>
  /\ UNCHANGED <<tvars, svars, dvars>>

\* The length checks in front of the loop.
CheckLength ==
  /\ v_pc = "check"
  /\ IF min_items.some /\ Len(dict) < min_items.v
     THEN Return(ValErrorNew([name |-> "TooShort", min_length |-> min_items.v]))
     ELSE IF max_items.some /\ Len(dict) > max_items.v
     THEN Return(ValErrorNew([name |-> "TooLong", max_length |-> max_items.v]))
     ELSE IF Len(dict) = 0
     THEN Return(LoopResult(errors, output))
     ELSE /\ v_pc' = "key"
          /\ v_result' = v_result
  /\ UNCHANGED <<dict, min_items, max_items, v_i, output, errors, output_key,
                 key_calls, value_calls>>
  /\ UNCHANGED <<tvars, svars, dvars>>

\* The key errors of one entry with the two outer locations pushed in the
\* other order.
KeyErrors_KeyPushedFirst(key, line_errors) ==
  [n \in 1..Len(line_errors) |->
     with_outer_location(with_outer_location(line_errors[n], as_loc_item(key)),
                         "[key]")]

\* KeyErrors keeping only the first line error of the key validator.
KeyErrors_FirstOnly(key, line_errors) ==
  << with_outer_location(with_outer_location(line_errors[1], "[key]"),
                         as_loc_item(key)) >>

\* The key errors of one entry as the loop records them.
KeyErrors(key, line_errors) ==
  [n \in 1..Len(line_errors) |->
     with_outer_location(with_outer_location(line_errors[n], "[key]"),
                         as_loc_item(key))]

\* The value errors of one entry as the loop records them.
ValueErrors(key, line_errors) ==
  [n \in 1..Len(line_errors) |->
     with_outer_location(line_errors[n], as_loc_item(key))]

\* First half of an iteration: the key validator on the entry's key.
ValidateKey ==
  /\ v_pc = "key"
  /\ LET key == dict[v_i][1]
         r == KeyValidate(key)
     IN /\ key_calls' = Append(key_calls, v_i)
        /\ CASE r.tag = "Ok" ->
                  /\ output_key' = Some(r.val)
                  /\ errors' = errors
                  /\ v_pc' = "value"
                  /\ v_result' = v_result
             [] r.tag = "LineErrors" ->
                  /\ output_key' = None
                  /\ errors' = errors \o KeyErrors(key, r.errs)
                  /\ v_pc' = "value"
                  /\ v_result' = v_result
             [] OTHER ->
                  /\ Return(Abort(r, errors))
                  /\ UNCHANGED <<output_key, errors>>
  /\ UNCHANGED <<dict, min_items, max_items, v_i, output, value_calls>>
  /\ UNCHANGED <<tvars, svars, dvars>>

\* The end of an iteration: on to the next entry, or out of the loop.
NextEntry(errs, out) ==
  IF v_i < Len(dict)
  THEN /\ v_i' = v_i + 1
       /\ v_pc' = "key"
       /\ v_result' = v_result
  ELSE /\ v_i' = v_i
       /\ Return(LoopResult(errs, out))

\* Second half of an iteration: the value validator on the entry's value,
\* then the insertion when both halves succeeded.
ValidateValue ==
  /\ v_pc = "value"
  /\ LET key == dict[v_i][1]
         r == ValueValidate(dict[v_i][2])
     IN /\ value_calls' = Append(value_calls, v_i)
        /\ CASE r.tag = "Ok" ->
                  IF output_key.some
                  THEN LET s == set_item(output, output_key.v, r.val)
                       IN IF s.tag = "Ok"
                          THEN /\ output' = s.dict
                               /\ errors' = errors
                               /\ NextEntry(errors, s.dict)
                          ELSE /\ Return([tag |-> "InternalErr", raised_by |-> "set_item"])
                               /\ UNCHANGED <<output, errors, v_i>>
                  ELSE /\ UNCHANGED <<output, errors>>
                       /\ NextEntry(errors, output)
             [] r.tag = "LineErrors" ->
                  /\ errors' = errors \o ValueErrors(key, r.errs)
                  /\ output' = output
                  /\ NextEntry(errors \o ValueErrors(key, r.errs), output)
             [] OTHER ->
                  /\ Return(Abort(r, errors))
                  /\ UNCHANGED <<output, errors, v_i>>
  /\ output_key' = None
  /\ UNCHANGED <<dict, min_items, max_items, key_calls>>
  /\ UNCHANGED <<tvars, svars, dvars>>

NextValidator == CheckLength \/ ValidateKey \/ ValidateValue

\* No dict validator is at work.
ValidatorOff ==
  /\ v_pc = "off"
  /\ dict = << >>
  /\ min_items = None
  /\ max_items = None
  /\ v_i = 1
  /\ output = << >>
  /\ errors = << >>
  /\ output_key = None
  /\ key_calls = << >>
  /\ value_calls = << >>
  /\ v_result = NoResult

(***************************************************************************)
(* src/input/datetime.rs                                                   *)
(*                                                                         *)
(* An i64 is kept as a sign and the eight bytes of its magnitude, a u32 as *)
(* four bytes (least significant first), so that the values around 2^32    *)
(* and 2^63 and the `as u32` casts stay those of the program.              *)
(***************************************************************************)
\* longest native timedelta of the model, in days, either side of zero
MaxDays == 2

SecondsPerDay == 86400

MicrosPerSecond == 1000000

\* the largest day count a speedate Duration takes
MaxDurationDays == 999999999

\* The n least significant bytes of a natural number.
RECURSIVE ToBytes(_, _)
ToBytes(n, len) == IF len = 0 THEN << >> ELSE <<n % 256>> \o ToBytes(n \div 256, len - 1)

\* An i64 from a small integer.
I64(n) == [neg |-> n < 0, mag |-> ToBytes(IF n < 0 THEN -n ELSE n, 8)]

\* A u32 from a small natural number.
U32(n) == ToBytes(n, 4)

\* u32::MAX
U32_MAX == <<255, 255, 255, 255>>

IsZero(b) == \A i \in 1..Len(b) : b[i] = 0

\* The magnitude is below 2^31 and can be computed with directly.
FitsInt(b) == \A i \in 1..Len(b) : (i = 4 => b[i] < 128) /\ (i > 4 => b[i] = 0)

ToInt(b) == b[1] + 256 * b[2] + 65536 * b[3] + 16777216 * b[4]

\* Long division of the bytes i.. of b by a divisor m below 2^23.
RECURSIVE DivRem(_, _, _)
DivRem(b, m, i) ==
  IF i > Len(b) THEN [q |-> << >>, r |-> 0]
  ELSE LET hi == DivRem(b, m, i + 1)
           cur == hi.r * 256 + b[i]
       IN [q |-> <<cur \div m>> \o hi.q, r |-> cur % m]

\* i64::signum
signum(x) == IF IsZero(x.mag) THEN 0 ELSE IF x.neg THEN -1 ELSE 1

\* i64::unsigned_abs
unsigned_abs(x) == x.mag

\* `as u32` of a u64: the low four bytes.
AsU32(b) == SubSeq(b, 1, 4)

\* t > MAX_U32 for a non-negative i64 t.
AboveMaxU32(b) == \E i \in 5..Len(b) : b[i] # 0

\* speedate's Duration::new: microseconds above a second are carried into the
\* seconds, seconds above a day into the days, and a day count above
\* MaxDurationDays is an error.  day is a u64 in bytes, microsecond a u32 in
\* bytes; the fields of the result are below 2^31.
DurationNew(positive, day, second, microsecond) ==
  LET us == DivRem(microsecond, MicrosPerSecond, 1)
      sec == second + ToInt(us.q)
      carry == sec \div SecondsPerDay
  IN IF ~FitsInt(day) \/ ToInt(day) > MaxDurationDays - carry
     THEN [kind |-> "err", error |-> "DurationDaysTooLarge"]
     ELSE [kind |-> "raw", positive |-> positive, day |-> ToInt(day) + carry,
           second |-> sec % SecondsPerDay, microsecond |-> us.r]

\* int_as_duration(seconds: i64, microseconds: i64)
int_as_duration(seconds, microseconds) ==
  IF signum(seconds) # 0 /\ signum(microseconds) # 0
     /\ signum(seconds) # signum(microseconds)
  THEN [kind |-> "err", error |-> "TooShort"]
  ELSE LET positive == ~seconds.neg
           abs == unsigned_abs(seconds)
           d == DurationNew(positive,
                            DivRem(abs, SecondsPerDay, 1).q,
                            DivRem(abs, SecondsPerDay, 1).r,
                            AsU32(unsigned_abs(microseconds)))
       IN IF d.kind = "raw" THEN d ELSE [kind |-> "err", error |-> "TimeTooLarge"]

\* A native timedelta: days, 0 <= seconds < 86400, 0 <= microseconds < 10^6.
PyDelta(days, seconds, microseconds) ==
  [kind |-> "py", days |-> days, seconds |-> seconds, microseconds |-> microseconds]

\* PyDelta::new(days, seconds, microseconds, normalize = true): the host
\* carries microseconds into seconds and seconds into days, and takes no more
\* than 999999999 days either side of zero.
PyDeltaNew(days, seconds, microseconds) ==
  LET s == seconds + (microseconds \div MicrosPerSecond)
      d == days + (s \div SecondsPerDay)
  IN IF d < -MaxDurationDays \/ d > MaxDurationDays
     THEN [kind |-> "err", error |-> "OverflowError"]
     ELSE PyDelta(d, s % SecondsPerDay, microseconds % MicrosPerSecond)

\* pytimedelta_as_timedelta(py_timedelta); unwrap() of an Err is a panic.
pytimedelta_as_timedelta(td) ==
  LET r == int_as_duration(I64(td.days * SecondsPerDay + td.seconds), I64(td.microseconds))
  IN IF r.kind = "raw" THEN r ELSE [kind |-> "panic", error |-> r.error]

\* EitherTimedelta::Raw(duration).try_into_py(); the `as i32` casts leave the
\* fields of a Duration as they are, all of them being below 2^31.
try_into_py(duration) ==
  LET sign == IF duration.positive THEN 1 ELSE -1
  IN PyDeltaNew(sign * duration.day, sign * duration.second, sign * duration.microsecond)

\* speedate's Time::from_timestamp(second: u32, microsecond: u32), the range
\* checker: whole seconds of the microseconds are added to the seconds (an
\* overflow of that sum is TimeTooLarge), and 86400 seconds or more are
\* TimeTooLarge.
TimeFromTimestamp(timestamp_second, timestamp_microsecond) ==
  LET us == DivRem(timestamp_microsecond, MicrosPerSecond, 1)
  IN IF ~FitsInt(timestamp_second) \/ ToInt(timestamp_second) >= SecondsPerDay
     THEN [kind |-> "err", error |-> "TimeTooLarge"]
     ELSE LET second == ToInt(timestamp_second) + ToInt(us.q)
          IN IF second >= SecondsPerDay
             THEN [kind |-> "err", error |-> "TimeTooLarge"]
             ELSE [kind |-> "time", hour |-> second \div 3600,
                   minute |-> (second % 3600) \div 60, second |-> second % 60,
                   microsecond |-> us.r]

\* int_as_time with the timestamp cast to u32 without the clamp to u32::MAX.
int_as_time_NoClamp(timestamp, timestamp_microseconds) ==
  IF signum(timestamp) < 0
  THEN [kind |-> "err", error_kind |-> "TimeParsing",
        error |-> "time in seconds must be positive", from |-> "int_as_time"]
  ELSE LET r == TimeFromTimestamp(AsU32(timestamp.mag), timestamp_microseconds)
       IN IF r.kind = "time" THEN r
          ELSE [kind |-> "err", error_kind |-> "TimeParsing", error |-> r.error,
                from |-> "Time::from_timestamp"]

\* int_as_time(input, timestamp: i64, timestamp_microseconds: u32)
int_as_time(timestamp, timestamp_microseconds) ==
  IF signum(timestamp) < 0
  THEN [kind |-> "err", error_kind |-> "TimeParsing",
        error |-> "time in seconds must be positive", from |-> "int_as_time"]
  ELSE LET time_timestamp == IF AboveMaxU32(timestamp.mag) THEN U32_MAX
                             ELSE AsU32(timestamp.mag)
           r == TimeFromTimestamp(time_timestamp, timestamp_microseconds)
       IN IF r.kind = "time" THEN r
          ELSE [kind |-> "err", error_kind |-> "TimeParsing", error |-> r.error,
                from |-> "Time::from_timestamp"]

\* The i64 values the integer constructors are tried on: the small ones, the
\* ones around a day, around 2^32, around the largest Duration, and the ends
\* of the i64 range.
\* Integer division and remainder as Rust has them: towards zero, the sign of
\* the remainder that of the dividend.
TruncDiv(a, b) == IF a >= 0 THEN a \div b ELSE -((-a) \div b)

TruncRem(a, b) == a - b * TruncDiv(a, b)

Abs(n) == IF n < 0 THEN -n ELSE n

Digit(d) == CASE d = 0 -> "0" [] d = 1 -> "1" [] d = 2 -> "2" [] d = 3 -> "3" [] d = 4 -> "4"
              [] d = 5 -> "5" [] d = 6 -> "6" [] d = 7 -> "7" [] d = 8 -> "8" [] d = 9 -> "9"

\* The decimal digits of a natural number.
RECURSIVE Decimal(_)
Decimal(n) == IF n < 10 THEN Digit(n) ELSE Decimal(n \div 10) \o Digit(n % 10)

\* format!("{:+03}", n): the sign always, zeros up to a width of three.
FormatPlus03(n) ==
  (IF n < 0 THEN "-" ELSE "+") \o (IF Abs(n) < 10 THEN "0" ELSE "") \o Decimal(Abs(n))

\* format!("{:02}", n) of a number that is not negative.
Format02(n) == (IF n < 10 THEN "0" ELSE "") \o Decimal(n)

\* TzInfo::__str__
TzInfoStr(seconds) ==
  IF seconds = 0 THEN "UTC"
  ELSE LET mins == TruncDiv(seconds, 60)
       IN FormatPlus03(TruncDiv(mins, 60)) \o ":" \o Format02(Abs(TruncRem(mins, 60)))

\* TzInfo::tzname
tzname(seconds) == TzInfoStr(seconds)

\* The offsets a TzInfo is made with.
TzOffsets ==
  {sg * n : sg \in {-1, 1},
            n \in {0, 1, 59, 60, 61, 1800, 3599, 3600, 3660, 5400, 19800, 35999, 36000,
                   43200, 86340, 86399, 86400, 360000, 2147483647}}

\* An f64 that is a whole number of microseconds: its sign, the whole seconds
\* and the microseconds of its magnitude.  There is no negative zero here.
F64(neg, secs, micros) == [kind |-> "float", neg |-> neg, secs |-> secs, micros |-> micros]

\* f64::floor() as i64
floor(t) == IF t.neg /\ t.micros > 0 THEN -(t.secs + 1) ELSE IF t.neg THEN -t.secs ELSE t.secs

\* (f64::fract().abs() * 1_000_000.0).round(): the fraction keeps the sign of
\* the number and abs() drops it.
fract_abs_micros(t) == t.micros

\* f64::signum() as i64
f64_signum(t) == IF t.neg THEN -1 ELSE 1

\* float_as_datetime: the arguments it hands to int_as_datetime.
float_as_datetime(timestamp) ==
  [kind |-> "datetime_ints", timestamp |-> I64(floor(timestamp)),
   timestamp_microseconds |-> U32(fract_abs_micros(timestamp))]

\* float_as_timedelta
float_as_timedelta(total_seconds) ==
  LET microseconds == fract_abs_micros(total_seconds)
      d == int_as_duration(I64(floor(total_seconds)),
                           I64(f64_signum(total_seconds) * microseconds))
  IN IF d.kind = "raw" THEN d ELSE [kind |-> "err", error |-> "TimeDeltaParsing"]

\* The floats of the model.
F64Samples ==
  {F64(neg, secs, micros) :
     neg \in BOOLEAN,
     secs \in {0, 1, 2, 59, SecondsPerDay - 1, SecondsPerDay, MaxDays * SecondsPerDay},
     micros \in {0, 1, 250000, 500000, MicrosPerSecond - 1}}
  \ {F64(TRUE, 0, 0)}

WideMagnitudes ==
  { <<0, 0, 0, 0, 1, 0, 0, 0>>,              \* 2^32
    <<1, 0, 0, 0, 1, 0, 0, 0>>,              \* 2^32 + 1
    <<64, 66, 15, 0, 1, 0, 0, 0>>,           \* 2^32 + 10^6
    <<255, 255, 255, 255, 0, 0, 0, 0>>,      \* 2^32 - 1
    <<255, 255, 78, 145, 148, 78, 0, 0>>,    \* 999999999 days and 86399 seconds
    <<0, 0, 79, 145, 148, 78, 0, 0>>,        \* 1000000000 days in seconds
    <<255, 255, 255, 255, 255, 255, 255, 127>> }   \* i64::MAX

I64Samples ==
  {I64(n) : n \in (-MaxDays..MaxDays) \cup {59, 60, 3599, 3600}}
  \cup {I64(sg * n) : sg \in {-1, 1},
                      n \in {SecondsPerDay - 1, SecondsPerDay, SecondsPerDay + 1,
                             MicrosPerSecond - 1, MicrosPerSecond, MicrosPerSecond + 1}}
  \cup {[neg |-> sg, mag |-> m] : sg \in BOOLEAN, m \in WideMagnitudes}
  \cup {[neg |-> TRUE, mag |-> <<0, 0, 0, 0, 0, 0, 0, 128>>]}   \* i64::MIN

U32Samples ==
  {U32(n) : n \in {0, 1, MicrosPerSecond - 1, MicrosPerSecond, 2 * MicrosPerSecond + 5}}
  \cup {U32_MAX}

\* The native timedeltas of the model.
PyDeltas ==
  {PyDelta(d, s, us) : d \in -MaxDays..MaxDays,
                       s \in {0, 1, SecondsPerDay - 1},
                       us \in {0, 1, MicrosPerSecond - 1}}

\* The raw Durations of the model, each as Duration::new leaves it.
Durations ==
  {[kind |-> "raw", positive |-> p, day |-> d, second |-> s, microsecond |-> us] :
     p \in BOOLEAN, d \in 0..MaxDays, s \in {0, 1, SecondsPerDay - 1},
     us \in {0, 1, MicrosPerSecond - 1}}

\* What a chain of conversions may start from.
TemporalInputs ==
  {[kind |-> "ints", seconds |-> s, microseconds |-> us] : s \in I64Samples, us \in I64Samples}
  \cup {[kind |-> "time_ints", timestamp |-> t, timestamp_microseconds |-> us] :
          t \in I64Samples, us \in U32Samples}
  \cup PyDeltas
  \cup Durations
  \cup {[kind |-> "tz", seconds |-> o] : o \in TzOffsets}
  \cup F64Samples

TemporalStart ==
  /\ t_in \in TemporalInputs
  /\ t_val = t_in
  /\ t_trace = << >>

\* No temporal conversion is at work.
TemporalOff ==
  /\ t_in = [kind |-> "off"]
  /\ t_val = t_in
  /\ t_trace = << >>

\* A call of int_as_duration.
IntAsDuration ==
  /\ t_val.kind = "ints"
  /\ t_val' = int_as_duration(t_val.seconds, t_val.microseconds)
  /\ t_trace' = Append(t_trace, "int_as_duration")
  /\ UNCHANGED <<t_in, vvars, svars, dvars>>

\* A call of int_as_time.
IntAsTime ==
  /\ t_val.kind = "time_ints"
  /\ t_val' = int_as_time(t_val.timestamp, t_val.timestamp_microseconds)
  /\ t_trace' = Append(t_trace, "int_as_time")
  /\ UNCHANGED <<t_in, vvars, svars, dvars>>

\* EitherTimedelta::Py(td).as_raw(): a native timedelta to a raw Duration.
PyTimedeltaAsTimedelta ==
  /\ t_val.kind = "py"
  /\ Len(t_trace) < 2
  /\ t_val' = pytimedelta_as_timedelta(t_val)
  /\ t_trace' = Append(t_trace, "pytimedelta_as_timedelta")
  /\ UNCHANGED <<t_in, vvars, svars, dvars>>

\* EitherTimedelta::Raw(duration).try_into_py(): a raw Duration to a native
\* timedelta.
TryIntoPy ==
  /\ t_val.kind = "raw"
  /\ t_in.kind \in {"raw", "py"}
  /\ Len(t_trace) < 2
  /\ t_val' = try_into_py(t_val)
  /\ t_trace' = Append(t_trace, "try_into_py")
  /\ UNCHANGED <<t_in, vvars, svars, dvars>>

\* TzInfo::new(seconds).__str__()
TzStr ==
  /\ t_val.kind = "tz"
  /\ t_val' = [kind |-> "str", str |-> TzInfoStr(t_val.seconds)]
  /\ t_trace' = Append(t_trace, "__str__")
  /\ UNCHANGED <<t_in, vvars, svars, dvars>>

\* TzInfo::new(seconds).tzname(dt)
TzName ==
  /\ t_val.kind = "tz"
  /\ t_val' = [kind |-> "str", str |-> tzname(t_val.seconds)]
  /\ t_trace' = Append(t_trace, "tzname")
  /\ UNCHANGED <<t_in, vvars, svars, dvars>>

\* A call of float_as_datetime, up to its call of int_as_datetime.
FloatAsDatetime ==
  /\ t_val.kind = "float"
  /\ t_val' = float_as_datetime(t_val)
  /\ t_trace' = Append(t_trace, "float_as_datetime")
  /\ UNCHANGED <<t_in, vvars, svars, dvars>>

\* A call of float_as_timedelta.
FloatAsTimedelta ==
  /\ t_val.kind = "float"
  /\ t_val' = float_as_timedelta(t_val)
  /\ t_trace' = Append(t_trace, "float_as_timedelta")
  /\ UNCHANGED <<t_in, vvars, svars, dvars>>

NextTemporal ==
  \/ IntAsDuration \/ IntAsTime \/ PyTimedeltaAsTimedelta \/ TryIntoPy
  \/ TzStr \/ TzName \/ FloatAsDatetime \/ FloatAsTimedelta

(***************************************************************************)
(* src/serializers/type_serializers/typed_dict.rs                          *)
(***************************************************************************)
\* longest input mapping handed to the typed-dict serializer
MaxSerLen == 2

\* Python objects used as keys: strings, and one key that is no string.
PyStr(s) == [type |-> "str", str |-> s]

PyInt(s) == [type |-> "int", str |-> s]

IsPyString(key) == key.type = "str"

PyNone == "None"

\* The "fields" of the schema the serializer is built from: "a" has a
\* serialization alias and a default, "b" has neither, "c" is excluded from
\* serialization by the schema.
FieldsDict ==
  [a |-> [serialization_alias |-> Some("x"), serialization_exclude |-> None,
          schema |-> [type |-> "default", default |-> Some("d")]],
   b |-> [serialization_alias |-> None, serialization_exclude |-> Some(FALSE),
          schema |-> [type |-> "any", default |-> None]],
   c |-> [serialization_alias |-> None, serialization_exclude |-> Some(TRUE),
          schema |-> [type |-> "any", default |-> None]]]

\* The extra_behavior a schema or its config may set.
ExtraBehaviors == {None, Some("allow"), Some("forbid")}

\* SchemaFilter::from_vec_hash: the keys the schema excludes.
from_vec_hash(exclude) == [exclude |-> exclude]

\* The fields of a TypedDictSerializer built from the "fields" of a schema.
BuildFields(fields_dict) ==
  [key \in DOMAIN fields_dict |->
     [key_py |-> PyStr(key),
      alias |-> fields_dict[key].serialization_alias,
      alias_py |-> IF fields_dict[key].serialization_alias.some
                   THEN Some(PyStr(fields_dict[key].serialization_alias.v))
                   ELSE None,
      serializer |-> [field |-> key, schema |-> fields_dict[key].schema]]]

\* The filter of a TypedDictSerializer: the fields the schema excludes.
BuildFilter(fields_dict) ==
  from_vec_hash({PyStr(key) : key \in
     {k \in DOMAIN fields_dict : fields_dict[k].serialization_exclude = Some(TRUE)}})

\* build with the extras let through unless the schema forbids them.
build_ExtraUnlessForbid(fields_dict, extra_behavior) ==
  [fields |-> BuildFields(fields_dict),
   include_extra |-> (extra_behavior # Some("forbid")),
   filter |-> BuildFilter(fields_dict)]

\* TypedDictSerializer::build
build(fields_dict, extra_behavior) ==
  [fields |-> BuildFields(fields_dict),
   include_extra |-> (extra_behavior = Some("allow")),
   filter |-> BuildFilter(fields_dict)]

\* get_key_py with the alias used whatever by_alias says.
get_key_py_AlwaysAlias(field, extra) ==
  IF field.alias_py.some THEN field.alias_py.v ELSE field.key_py

\* TypedDictField::get_key_py
get_key_py(field, extra) ==
  IF extra.by_alias /\ field.alias_py.some THEN field.alias_py.v ELSE field.key_py

\* TypedDictField::get_key_json
get_key_json(field, key_str, extra) ==
  IF extra.by_alias /\ field.alias.some THEN field.alias.v ELSE key_str

\* with_default::get_default: the default a field's serializer declares.
get_default(serializer) == serializer.schema.default

\* exclude_default without the look at exclude_defaults.
exclude_default_Always(value, extra, field) ==
  /\ get_default(field.serializer).some
  /\ value = get_default(field.serializer).v

\* TypedDictSerializer::exclude_default
exclude_default(value, extra, field) ==
  /\ extra.exclude_defaults
  /\ get_default(field.serializer).some
  /\ value = get_default(field.serializer).v

\* An include or exclude argument: None, or a mapping from keys to the
\* include or exclude argument of the value under that key.
HasItem(arg, key) == arg.some /\ key \in DOMAIN arg.v

\* SchemaFilter::key_filter: None to skip the key, or the include and exclude
\* arguments for the value under it.
key_filter(filter, key, include, exclude) ==
  LET next_exclude == IF HasItem(exclude, key) THEN exclude.v[key] ELSE None
  IN IF HasItem(exclude, key) /\ exclude.v[key] = None THEN None
     ELSE IF HasItem(include, key) THEN Some(<<include.v[key], next_exclude>>)
     ELSE IF key \in filter.exclude THEN None
     ELSE IF include.some THEN None
     ELSE Some(<<None, next_exclude>>)

\* The field's serializer on a value; it fails on the value "bad".
FieldSerialize(serializer, value, include, exclude) ==
  IF value = "bad" THEN [tag |-> "Err"]
  ELSE [tag |-> "Ok",
        val |-> [by |-> serializer.field, value |-> value,
                 include |-> include, exclude |-> exclude]]

\* fallback_to_python / SerializeInfer: the generic serializer on a value.
Fallback(value, include, exclude) ==
  [by |-> "fallback", value |-> value, include |-> include, exclude |-> exclude]

\* fallback_json_key: the key as a JSON string.
fallback_json_key(key) == key.str

\* new_dict.set_item(key, value) in to_python; emitted keeps each call.
EmitPy(out, key, val) ==
  [out EXCEPT !.entries = PyDictSetItem(@, key, val),
              !.emitted = Append(@, <<key, val>>)]

\* map.serialize_entry(&key, &s) in serde_serialize: the entry is written out.
EmitJson(out, key, val) ==
  [out EXCEPT !.entries = Append(@, <<key, val>>),
              !.emitted = Append(@, <<key, val>>)]

\* The for loop of to_python over the entries of the input dict.
RECURSIVE ToPythonLoop(_, _, _, _, _, _)
ToPythonLoop(ser, py_dict, include, exclude, extra, new_dict) ==
  IF py_dict = << >>
  THEN new_dict
  ELSE LET key == Head(py_dict)[1]
           value == Head(py_dict)[2]
           f == key_filter(ser.filter, key, include, exclude)
           continue(d) == ToPythonLoop(ser, Tail(py_dict), include, exclude, extra, d)
       IN IF extra.exclude_none /\ value = PyNone THEN continue(new_dict)
          ELSE IF ~f.some THEN continue(new_dict)
          ELSE IF IsPyString(key) /\ key.str \in DOMAIN ser.fields
          THEN LET field == ser.fields[key.str]
                   r == FieldSerialize(field.serializer, value, f.v[1], f.v[2])
               IN IF exclude_default(value, extra, field) THEN continue(new_dict)
                  ELSE IF r.tag = "Err" THEN r
                  ELSE continue(EmitPy(new_dict, get_key_py(field, extra), r.val))
          ELSE IF ser.include_extra
          THEN continue(EmitPy(new_dict, key, Fallback(value, include, exclude)))
          ELSE continue(new_dict)

\* The for loop of serde_serialize: the entries go to the map serializer one
\* by one, under JSON keys.
RECURSIVE SerdeLoop(_, _, _, _, _, _)
SerdeLoop(ser, py_dict, include, exclude, extra, map) ==
  IF py_dict = << >>
  THEN map
  ELSE LET key == Head(py_dict)[1]
           value == Head(py_dict)[2]
           f == key_filter(ser.filter, key, include, exclude)
           continue(m) == SerdeLoop(ser, Tail(py_dict), include, exclude, extra, m)
       IN IF extra.exclude_none /\ value = PyNone THEN continue(map)
          ELSE IF ~f.some THEN continue(map)
          ELSE IF IsPyString(key) /\ key.str \in DOMAIN ser.fields
          THEN LET key_str == key.str
                   field == ser.fields[key_str]
                   sv == FieldSerialize(field.serializer, value, f.v[1], f.v[2])
               IN IF exclude_default(value, extra, field) THEN continue(map)
                  ELSE IF sv.tag = "Err" THEN sv
                  ELSE continue(EmitJson(map, get_key_json(field, key_str, extra), sv.val))
          ELSE IF ser.include_extra
          THEN continue(EmitJson(map, fallback_json_key(key),
                                 Fallback(value, include, exclude)))
          ELSE continue(map)

\* The length serde_serialize announces to the map serializer.
expected_len(ser, py_dict) ==
  IF ser.include_extra THEN Len(py_dict) ELSE Cardinality(DOMAIN ser.fields)

\* PyDict::new, with no set_item call made yet.
PyDictNew == [tag |-> "Ok", entries |-> << >>, emitted |-> << >>]

\* serializer.serialize_map(Some(expected_len)), with no entry written yet.
serialize_map(len) == [tag |-> "Ok", len |-> len, entries |-> << >>, emitted |-> << >>]

\* The values of an input mapping.
SerValues == {"d", PyNone, "u", "bad"}

\* The keys of an input mapping: the declared fields, a string that is no
\* field (and is the alias of "a"), and a key that is no string.
SerKeys == {PyStr("a"), PyStr("b"), PyStr("c"), PyStr("x"), PyInt("7")}

\* The values handed to the serializer: dicts, and a value that is no dict.
NotADict == [type |-> "list"]

PyDicts == {[type |-> "dict", entries |-> d] :
              d \in {e \in SeqUpTo(SerKeys \X SerValues, MaxSerLen) : DistinctKeys(e)}}

\* The include and the exclude argument handed on for the value under a key.
InnerInclude == Some(PyStr("k") :> None)

InnerExclude == Some(PyStr("j") :> None)

\* The include and exclude arguments of a call.
IncludeArgs ==
  {None,
   Some((PyStr("a") :> InnerInclude) @@ (PyStr("c") :> None)
        @@ (PyStr("x") :> None) @@ (PyInt("7") :> InnerInclude))}

ExcludeArgs ==
  {None,
   Some((PyStr("b") :> None) @@ (PyStr("a") :> InnerExclude)
        @@ (PyStr("x") :> InnerExclude))}

Extras == [by_alias : BOOLEAN, exclude_none : BOOLEAN, exclude_defaults : BOOLEAN]

SerializerStart ==
  /\ s_schema \in [fields : {FieldsDict}, extra_behavior : ExtraBehaviors]
  /\ s_ser = build(s_schema.fields, s_schema.extra_behavior)
  /\ s_call = [method |-> "none"]
  /\ s_result = NoResult
  /\ s_warnings = << >>

\* No typed-dict serializer is at work.
SerializerOff ==
  /\ s_schema = None
  /\ s_ser = None
  /\ s_call = [method |-> "off"]
  /\ s_result = NoResult
  /\ s_warnings = << >>

\* TypedDictSerializer::to_python(value, include, exclude, extra)
ToPython ==
  /\ s_call.method = "none"
  /\ \E value \in PyDicts \cup {NotADict}, include \in IncludeArgs,
        exclude \in ExcludeArgs, extra \in Extras :
       /\ s_call' = [method |-> "to_python", value |-> value, include |-> include,
                     exclude |-> exclude, extra |-> extra]
       /\ IF value.type = "dict"
          THEN /\ s_result' = ToPythonLoop(s_ser, value.entries, include, exclude, extra,
                                            PyDictNew)
               /\ s_warnings' = s_warnings
          ELSE /\ s_warnings' = Append(s_warnings, <<"typed-dict", value>>)
               /\ s_result' = [tag |-> "Ok", fallback |-> Fallback(value, include, exclude)]
  /\ UNCHANGED <<s_schema, s_ser, vvars, tvars, dvars>>

\* TypedDictSerializer::serde_serialize(value, serializer, include, exclude, extra)
SerdeSerialize ==
  /\ s_call.method = "none"
  /\ \E value \in PyDicts \cup {NotADict}, include \in IncludeArgs,
        exclude \in ExcludeArgs, extra \in Extras :
       /\ s_call' = [method |-> "serde_serialize", value |-> value, include |-> include,
                     exclude |-> exclude, extra |-> extra]
       /\ IF value.type = "dict"
          THEN /\ s_result' = SerdeLoop(s_ser, value.entries, include, exclude, extra,
                                         serialize_map(expected_len(s_ser, value.entries)))
               /\ s_warnings' = s_warnings
          ELSE /\ s_warnings' = Append(s_warnings, <<"typed-dict", value>>)
               /\ s_result' = [tag |-> "Ok", fallback |-> Fallback(value, include, exclude)]
  /\ UNCHANGED <<s_schema, s_ser, vvars, tvars, dvars>>

NextSerializer == ToPython \/ SerdeSerialize

(***************************************************************************)
(* src/serializers/type_serializers/timedelta.rs                           *)
(***************************************************************************)
\* extra.mode
SerModes == {"Python", "Json"}

\* extra.config.timedelta_mode
TimedeltaModes == {"iso8601", "float"}

\* value.cast_as::<PyDelta>() succeeds.
IsPyDelta(value) == "kind" \in DOMAIN value

\* The values handed to the timedelta serializer: timedeltas, and values that
\* are none.
TdValues == PyDeltas \cup {PyStr("x"), PyInt("7"), NotADict}

\* The keys handed to json_key.
TdKeys == PyDeltas \cup {PyStr("x"), PyInt("7")}

TdExtras == [mode : SerModes, timedelta_mode : TimedeltaModes]

\* TimedeltaMode::timedelta_to_json, json_key and timedelta_serialize.
timedelta_mode_output(method, timedelta_mode, py_timedelta) ==
  [tag |-> "Ok", by |-> method, timedelta_mode |-> timedelta_mode, value |-> py_timedelta]

\* extra.warnings.fallback_slow(EXPECTED_TYPE, value)
fallback_slow(warnings, value) == Append(warnings, <<"timedelta", value>>)

\* TimeDeltaSerializer::to_python: the result and the warnings it leaves.
TdToPythonResult(value, include, exclude, extra, warnings) ==
  IF extra.mode = "Json"
  THEN IF IsPyDelta(value)
       THEN [result |-> timedelta_mode_output("timedelta_to_json", extra.timedelta_mode, value),
             warnings |-> warnings]
       ELSE [result |-> [tag |-> "Ok", fallback |-> Fallback(value, include, exclude)],
             warnings |-> fallback_slow(warnings, value)]
  ELSE [result |-> [tag |-> "Ok", fallback |-> Fallback(value, include, exclude)],
        warnings |-> warnings]

TimeDeltaStart ==
  /\ td_call = [method |-> "none"]
  /\ td_result = NoResult
  /\ td_warnings = << >>

\* No timedelta serializer is at work.
TimeDeltaOff ==
  /\ td_call = [method |-> "off"]
  /\ td_result = NoResult
  /\ td_warnings = << >>

\* TimeDeltaSerializer::to_python(value, include, exclude, extra)
TdToPython ==
  /\ td_call.method = "none"
  /\ \E value \in TdValues, include \in IncludeArgs, exclude \in ExcludeArgs,
        extra \in TdExtras :
       LET r == TdToPythonResult(value, include, exclude, extra, td_warnings)
       IN /\ td_call' = [method |-> "to_python", value |-> value, include |-> include,
                         exclude |-> exclude, extra |-> extra]
          /\ td_result' = r.result
          /\ td_warnings' = r.warnings
  /\ UNCHANGED <<vvars, tvars, svars>>

\* TimeDeltaSerializer::json_key(key, extra)
TdJsonKey ==
  /\ td_call.method = "none"
  /\ \E key \in TdKeys, extra \in TdExtras :
       /\ td_call' = [method |-> "json_key", value |-> key, extra |-> extra]
       /\ IF IsPyDelta(key)
          THEN /\ td_result' = timedelta_mode_output("json_key", extra.timedelta_mode, key)
               /\ td_warnings' = td_warnings
          ELSE /\ td_warnings' = fallback_slow(td_warnings, key)
               /\ td_result' = [tag |-> "Ok", fallback_key |-> fallback_json_key(key)]
  /\ UNCHANGED <<vvars, tvars, svars>>

\* TimeDeltaSerializer::serde_serialize(value, serializer, include, exclude, extra)
TdSerdeSerialize ==
  /\ td_call.method = "none"
  /\ \E value \in TdValues, include \in IncludeArgs, exclude \in ExcludeArgs,
        extra \in TdExtras :
       /\ td_call' = [method |-> "serde_serialize", value |-> value, include |-> include,
                      exclude |-> exclude, extra |-> extra]
       /\ IF IsPyDelta(value)
          THEN /\ td_result' = timedelta_mode_output("timedelta_serialize",
                                                     extra.timedelta_mode, value)
               /\ td_warnings' = td_warnings
          ELSE /\ td_warnings' = fallback_slow(td_warnings, value)
               /\ td_result' = [tag |-> "Ok", fallback |-> Fallback(value, include, exclude)]
  /\ UNCHANGED <<vvars, tvars, svars>>

NextTimeDelta == TdToPython \/ TdJsonKey \/ TdSerdeSerialize

(***************************************************************************)
(* The specifications.                                                     *)
(***************************************************************************)
InitValidator == ValidatorStart /\ TemporalOff /\ SerializerOff /\ TimeDeltaOff

SpecValidator == InitValidator /\ [][NextValidator]_vars

InitTemporal == ValidatorOff /\ TemporalStart /\ SerializerOff /\ TimeDeltaOff

SpecTemporal == InitTemporal /\ [][NextTemporal]_vars

InitSerializer == ValidatorOff /\ TemporalOff /\ SerializerStart /\ TimeDeltaOff

SpecSerializer == InitSerializer /\ [][NextSerializer]_vars

InitTimeDelta == ValidatorOff /\ TemporalOff /\ SerializerOff /\ TimeDeltaStart

SpecTimeDelta == InitTimeDelta /\ [][NextTimeDelta]_vars

\* The serializers that expect one type of value.
InitExpectedType == InitSerializer \/ InitTimeDelta

NextExpectedType == NextSerializer \/ NextTimeDelta

SpecExpectedType == InitExpectedType /\ [][NextExpectedType]_vars

Init == InitValidator \/ InitTemporal \/ InitSerializer \/ InitTimeDelta

Next == NextValidator \/ NextTemporal \/ NextSerializer \/ NextTimeDelta

Spec == Init /\ [][Next]_vars

(***************************************************************************)
(* What the claims about the dict validator speak of.                      *)
(***************************************************************************)
Done == v_pc = "done"

TooShortInput == min_items.some /\ Len(dict) < min_items.v

TooLongInput == max_items.some /\ Len(dict) > max_items.v

LengthOk == ~TooShortInput /\ ~TooLongInput

KeyFails(e) == KeyValidate(e[1]).tag = "LineErrors"

ValueFails(e) == ValueValidate(e[2]).tag = "LineErrors"

\* An entry is invalid when its key or its value fails with a recoverable error.
Invalid(e) == KeyFails(e) \/ ValueFails(e)

\* No child validator returns a fatal error on any entry of d.
NoChildFatal(d) ==
  \A i \in 1..Len(d) : /\ KeyValidate(d[i][1]).tag \in {"Ok", "LineErrors"}
                       /\ ValueValidate(d[i][2]).tag \in {"Ok", "LineErrors"}

\* No entry of d normalises to a key the output mapping cannot take.
NoInsertFailure(d) ==
  \A i \in 1..Len(d) : (KeyValidate(d[i][1]).tag = "Ok" /\ ValueValidate(d[i][2]).tag = "Ok")
                          => KeyValidate(d[i][1]).val # "UNHASHABLE"

\* The valid entries of d normalise to pairwise different keys.
NoKeyCollision(d) ==
  \A i, j \in 1..Len(d) :
     (i # j /\ ~Invalid(d[i]) /\ ~Invalid(d[j]))
        => KeyValidate(d[i][1]).val # KeyValidate(d[j][1]).val

\* k: the number of invalid entries of d.
NumInvalid(d) == Cardinality({i \in 1..Len(d) : Invalid(d[i])})

\* The line errors the child validators report for entry e.
NumChildErrors(e) ==
  (IF KeyFails(e) THEN Len(KeyValidate(e[1]).errs) ELSE 0)
  + (IF ValueFails(e) THEN Len(ValueValidate(e[2]).errs) ELSE 0)

RECURSIVE SumChildErrors(_, _)
SumChildErrors(d, n) == IF n = 0 THEN 0 ELSE SumChildErrors(d, n - 1) + NumChildErrors(d[n])

\* The normalised pairs of the valid entries of d, in input order.
RECURSIVE ValidPairs(_)
ValidPairs(d) ==
  IF d = << >> THEN << >>
  ELSE LET e == Head(d)
           rest == ValidPairs(Tail(d))
       IN IF Invalid(e) THEN rest
          ELSE << <<KeyValidate(e[1]).val, ValueValidate(e[2]).val>> >> \o rest

Range(s) == {s[i] : i \in 1..Len(s)}

\* The call ran its loop over a mapping whose entries raise nothing fatal.
RecoverableRun == Done /\ LengthOk /\ NoChildFatal(dict) /\ NoInsertFailure(dict)

C2_AsStated ==
  (Done /\ NoChildFatal(dict)) =>
     /\ (v_result.tag = "Ok") <=> (errors = << >>)
     /\ errors # << >> => v_result = [tag |-> "LineErrors", errs |-> errors]

\* The errors the loop is to record for d: entry by entry, the key's errors
\* before the value's.
RECURSIVE RecordedErrors(_)
RecordedErrors(d) ==
  IF d = << >> THEN << >>
  ELSE LET e == Head(d)
       IN (IF KeyFails(e) THEN KeyErrors(e[1], KeyValidate(e[1]).errs) ELSE << >>)
          \o (IF ValueFails(e) THEN ValueErrors(e[1], ValueValidate(e[2]).errs) ELSE << >>)
          \o RecordedErrors(Tail(d))

\* C2 amended: when the length bounds are met, no child validator returns a
\* fatal error and no insertion into the output fails, the call returns the
\* output exactly when no recoverable error was recorded; otherwise it returns
\* one LineErrors holding every recorded error in entry order, key errors
\* before value errors, and no output.
C2_ResultRule ==
  RecoverableRun =>
     /\ errors = RecordedErrors(dict)
     /\ (v_result.tag = "Ok") <=> (errors = << >>)
     /\ v_result.tag = "Ok" => v_result.dict = output
     /\ errors # << >> => v_result = [tag |-> "LineErrors", errs |-> errors]

\* C2 witness: errors were recorded after a valid entry had gone into the
\* output, and the call returned the errors alone.
C2_Witness ==
  /\ RecoverableRun
  /\ output # << >>
  /\ Len(errors) >= 3
  /\ v_result.tag = "LineErrors"

Called(f) == t_trace = <<f>>

\* The magnitude |seconds| * 10^6 + |microseconds| as whole days, seconds of
\* the day and microseconds of the second; the days are bytes.
Magnitude(seconds, microseconds) ==
  LET s == DivRem(unsigned_abs(seconds), SecondsPerDay, 1)
      us == DivRem(unsigned_abs(microseconds), MicrosPerSecond, 1)
      usd == DivRem(us.q, SecondsPerDay, 1)
  IN [sdays |-> s.q, usdays |-> usd.q, second |-> s.r + usd.r, microsecond |-> us.r]

\* The magnitude is one a Duration can hold: no more than MaxDurationDays days.
Holdable(m) ==
  /\ FitsInt(m.sdays) /\ ToInt(m.sdays) <= MaxDurationDays
  /\ FitsInt(m.usdays) /\ ToInt(m.usdays) <= MaxDurationDays
  /\ ToInt(m.sdays) + ToInt(m.usdays) + (m.second \div SecondsPerDay) <= MaxDurationDays

\* Re-expanding the Duration d gives the magnitude m.
ReExpands(d, m) ==
  /\ d.day = ToInt(m.sdays) + ToInt(m.usdays) + (m.second \div SecondsPerDay)
  /\ d.second = m.second % SecondsPerDay
  /\ d.microsecond = m.microsecond

SignsAgree(seconds, microseconds) ==
  signum(seconds) = 0 \/ signum(microseconds) = 0 \/ signum(seconds) = signum(microseconds)

\* C5 as stated, for the magnitudes a Duration can hold: with matching signs
\* or a zero int_as_duration succeeds and re-expanding its result reproduces
\* |seconds| * 10^6 + |microseconds|; with different signs it fails.
C5_AsStated ==
  (Called("int_as_duration")
   /\ Holdable(Magnitude(t_in.seconds, t_in.microseconds))) =>
     IF SignsAgree(t_in.seconds, t_in.microseconds)
     THEN /\ t_val.kind = "raw"
          /\ ReExpands(t_val, Magnitude(t_in.seconds, t_in.microseconds))
     ELSE t_val.kind = "err"

\* Two Durations are equal; the sign of a zero Duration is of no account.
SameDuration(d, e) ==
  /\ d.day = e.day /\ d.second = e.second /\ d.microsecond = e.microsecond
  /\ (d.positive = e.positive \/ (d.day = 0 /\ d.second = 0 /\ d.microsecond = 0))

\* C6 as stated: neither conversion fails or panics, native -> raw -> native
\* gives the native timedelta back and raw -> native -> raw the Duration.
C6_AsStated ==
  /\ (t_in.kind = "py" /\ Len(t_trace) >= 1) => t_val.kind \in {"raw", "py"}
  /\ (t_in.kind = "py" /\ Len(t_trace) = 2) => t_val = t_in
  /\ (t_in.kind = "raw" /\ Len(t_trace) >= 1) => t_val.kind \in {"raw", "py"}
  /\ (t_in.kind = "raw" /\ Len(t_trace) = 2) => SameDuration(t_val, t_in)

\* C7: int_as_time turns down every negative timestamp itself, takes every
\* timestamp in 0..=86399 with microseconds in 0..=999999 to the time of day
\* with hour * 3600 + minute * 60 + second equal to the timestamp and the
\* microsecond of the input, and has the range checker turn down every
\* timestamp of 86400 or more, those above u32::MAX included.
C7_IntAsTime ==
  Called("int_as_time") =>
    LET t == t_in.timestamp
        us == t_in.timestamp_microseconds
    IN /\ signum(t) < 0 =>
            /\ t_val.kind = "err"
            /\ t_val.error_kind = "TimeParsing"
            /\ t_val.from = "int_as_time"
       /\ (signum(t) >= 0 /\ FitsInt(t.mag) /\ ToInt(t.mag) < SecondsPerDay
           /\ FitsInt(us) /\ ToInt(us) < MicrosPerSecond) =>
            /\ t_val.kind = "time"
            /\ t_val.hour * 3600 + t_val.minute * 60 + t_val.second = ToInt(t.mag)
            /\ t_val.hour \in 0..23 /\ t_val.minute \in 0..59 /\ t_val.second \in 0..59
            /\ t_val.microsecond = ToInt(us)
       /\ (signum(t) >= 0 /\ (~FitsInt(t.mag) \/ ToInt(t.mag) >= SecondsPerDay)) =>
            /\ t_val.kind = "err"
            /\ t_val.error_kind = "TimeParsing"
            /\ t_val.from = "Time::from_timestamp"

\* C7 witness: int_as_time(86399, 999999) is 23:59:59.999999.
C7_Witness ==
  /\ Called("int_as_time")
  /\ t_in.timestamp = I64(SecondsPerDay - 1)
  /\ t_in.timestamp_microseconds = U32(MicrosPerSecond - 1)
  /\ t_val = [kind |-> "time", hour |-> 23, minute |-> 59, second |-> 59,
              microsecond |-> 999999]

\* C7 witness of the clamp: a timestamp above u32::MAX turned down by the
\* range checker.
C7_WitnessClamped ==
  /\ Called("int_as_time")
  /\ AboveMaxU32(t_in.timestamp.mag)
  /\ ~t_in.timestamp.neg
  /\ t_val.kind = "err"
  /\ t_val.from = "Time::from_timestamp"

(***************************************************************************)
(* What the claims about the typed-dict serializer speak of.               *)
(***************************************************************************)
\* A call was made on a dict and returned without an error.
SerOk == /\ s_call.method \in {"to_python", "serde_serialize"}
         /\ s_call.value.type = "dict"
         /\ s_result.tag = "Ok"

\* The key is the name of a field the schema declares.
Declared(key) == IsPyString(key) /\ key.str \in DOMAIN s_schema.fields

\* The entry is dropped by exclude_none.
DroppedAsNone(e) == s_call.extra.exclude_none /\ e[2] = PyNone

\* The entry is dropped by the schema's exclusions or the caller's include and
\* exclude arguments.
DroppedByFilter(e) == ~key_filter(s_ser.filter, e[1], s_call.include, s_call.exclude).some

Passes(e) == ~DroppedAsNone(e) /\ ~DroppedByFilter(e)

\* The value of the entry is the default its field declares.
IsDefault(e) ==
  LET d == s_schema.fields[e[1].str].schema.default IN d.some /\ e[2] = d.v

\* A key as the output of the called method holds it: a Python object in the
\* dict of to_python, a string in the map of serde_serialize.
OutKey(key) == IF s_call.method = "to_python" THEN key ELSE key.str

\* The key the schema and by_alias ask for field f.
ExpectedKey(f) ==
  LET alias == s_schema.fields[f].serialization_alias
  IN IF s_call.extra.by_alias /\ alias.some THEN alias.v ELSE f

\* The entries the call emitted for field f.
EmittedFor(f) == {i \in 1..Len(s_result.emitted) : s_result.emitted[i][2].by = f}

\* The entry of field f went out with the value v.
EmittedWith(f, v) == \E i \in EmittedFor(f) : s_result.emitted[i][2].value = v

\* The emitted entry i is alone under its key.
AloneUnderKey(i) ==
  \A j \in 1..Len(s_result.emitted) :
     j # i => s_result.emitted[j][1] # s_result.emitted[i][1]

\* The output holds the entry of field f with the value v.
InOutput(f, v) ==
  \E i \in 1..Len(s_result.entries) :
     s_result.entries[i][2].by = f /\ s_result.entries[i][2].value = v

\* C8: a declared field that is emitted goes out under its alias when by_alias
\* is set and the field declares an alias, and under its canonical name
\* otherwise; to_python and serde_serialize choose the same key for every
\* field and every by_alias.
C8_KeySelection ==
  /\ SerOk =>
       /\ \A i \in 1..Len(s_result.emitted) :
            s_result.emitted[i][2].by # "fallback" =>
               s_result.emitted[i][1] = OutKey(PyStr(ExpectedKey(s_result.emitted[i][2].by)))
       /\ \A i \in 1..Len(s_result.entries) :
            s_result.entries[i][2].by # "fallback" =>
               s_result.entries[i][1] = OutKey(PyStr(ExpectedKey(s_result.entries[i][2].by)))
       /\ \A e \in Range(s_call.value.entries) :
            (Declared(e[1]) /\ Passes(e) /\ ~(s_call.extra.exclude_defaults /\ IsDefault(e)))
               => \E i \in EmittedFor(e[1].str) :
                     s_result.emitted[i][1] = OutKey(PyStr(ExpectedKey(e[1].str)))
  /\ s_call.method # "off" =>
       \A f \in DOMAIN s_ser.fields, extra \in Extras :
          get_key_py(s_ser.fields[f], extra) = PyStr(get_key_json(s_ser.fields[f], f, extra))

\* C8 witness: with by_alias set, the field with an alias went out under the
\* alias and the field without one under its name.
C8_Witness ==
  /\ SerOk
  /\ s_call.extra.by_alias
  /\ \E i \in EmittedFor("a") : s_result.emitted[i][1] = OutKey(PyStr("x"))
  /\ \E i \in EmittedFor("b") : s_result.emitted[i][1] = OutKey(PyStr("b"))

\* C8 witness: without by_alias the field with an alias went out under its name.
C8_WitnessCanonical ==
  /\ SerOk
  /\ ~s_call.extra.by_alias
  /\ \E i \in EmittedFor("a") : s_result.emitted[i][1] = OutKey(PyStr("a"))

C9_WitnessKept ==
  /\ SerOk
  /\ ~s_call.extra.exclude_defaults
  /\ \E e \in Range(s_call.value.entries) : e[1] = PyStr("a") /\ IsDefault(e)
  /\ InOutput("a", "d")

\* The names and the aliases of the declared fields.
DeclaredKeys ==
  {f : f \in DOMAIN s_schema.fields}
  \cup {s_schema.fields[f].serialization_alias.v :
          f \in {g \in DOMAIN s_schema.fields : s_schema.fields[g].serialization_alias.some}}

\* C10: when the extra behaviour is anything other than "allow", every entry of
\* the output comes from a declared field, under the name or the alias of that
\* field, whatever include, exclude and by_alias are; under "allow" an
\* undeclared key that exclude_none and the filter let through goes out, its
\* value through the generic serializer.
C10_ExtraPolicy ==
  SerOk =>
    /\ s_schema.extra_behavior # Some("allow") =>
         /\ EmittedFor("fallback") = {}
         /\ \A i \in 1..Len(s_result.entries) :
              /\ s_result.entries[i][2].by \in DOMAIN s_schema.fields
              /\ \E k \in DeclaredKeys : s_result.entries[i][1] = OutKey(PyStr(k))
    /\ s_schema.extra_behavior = Some("allow") =>
         \A e \in Range(s_call.value.entries) :
            (~Declared(e[1]) /\ Passes(e)) =>
               \E i \in EmittedFor("fallback") :
                  /\ s_result.emitted[i][1] = OutKey(e[1])
                  /\ s_result.emitted[i][2].value = e[2]

\* C10 witness: under "allow", an undeclared string key and a key that is no
\* string went out.
C10_Witness ==
  /\ SerOk
  /\ s_schema.extra_behavior = Some("allow")
  /\ Len(s_call.value.entries) = 2
  /\ \A e \in Range(s_call.value.entries) : ~Declared(e[1]) /\ Passes(e)
  /\ Len(s_result.entries) = 2

\* C10 witness: without "allow", an undeclared key that the filter lets through
\* came in beside a declared field, and only the field went out.
C10_WitnessDropped ==
  /\ SerOk
  /\ s_schema.extra_behavior # Some("allow")
  /\ \E e \in Range(s_call.value.entries) : ~Declared(e[1]) /\ Passes(e)
  /\ Len(s_result.entries) = 1

(***************************************************************************)
(* What the claim about the order of the entries speaks of.                *)
(***************************************************************************)
\* s holds entries of t, in the order they have in t.
RECURSIVE IsSubsequence(_, _)
IsSubsequence(s, t) ==
  IF s = << >> THEN TRUE
  ELSE IF t = << >> THEN FALSE
  ELSE IF Head(s) = Head(t) THEN IsSubsequence(Tail(s), Tail(t))
  ELSE IsSubsequence(s, Tail(t))

FirstUnder(t, k) == CHOOSE i \in 1..Len(t) : t[i][1] = k /\ \A j \in 1..(i - 1) : t[j][1] # k

LastUnder(t, k) == CHOOSE i \in 1..Len(t) : t[i][1] = k /\ \A j \in (i + 1)..Len(t) : t[j][1] # k

DistinctOutputKeys(t) == \A i, j \in 1..Len(t) : i # j => t[i][1] # t[j][1]

\* out holds one entry for each key of t, the keys in the order in which they
\* first come in t, each with the value t has last for it.
FirstPlaceLastValue(out, t) ==
  /\ DistinctOutputKeys(out)
  /\ {e[1] : e \in Range(out)} = {e[1] : e \in Range(t)}
  /\ \A p, q \in 1..Len(out) : p < q => FirstUnder(t, out[p][1]) < FirstUnder(t, out[q][1])
  /\ \A p \in 1..Len(out) : out[p][2] = t[LastUnder(t, out[p][1])][2]

\* The place in the input of the entry that a serialized entry was made from.
Origin(em) ==
  IF em[2].by # "fallback" THEN IndexOfKey(s_call.value.entries, PyStr(em[2].by))
  ELSE CHOOSE i \in 1..Len(s_call.value.entries) :
         /\ ~Declared(s_call.value.entries[i][1])
         /\ OutKey(s_call.value.entries[i][1]) = em[1]
         /\ s_call.value.entries[i][2] = em[2].value

InInputOrder(t) == \A p, q \in 1..Len(t) : p < q => Origin(t[p]) < Origin(t[q])

ValidatorOk == Done /\ v_result.tag = "Ok"

\* C4 as stated: the output of the validator, of to_python and of
\* serde_serialize holds the surviving pairs in the relative order of the
\* input pairs they come from.
C4_AsStated ==
  /\ ValidatorOk => IsSubsequence(v_result.dict, ValidPairs(dict))
  /\ SerOk => InInputOrder(s_result.entries)

\* C4 amended: the surviving entries are handled in input order, never in the
\* order of the schema.  serde_serialize writes each of them out as it comes.
\* The validator and to_python put them into a dict: a key keeps the place of
\* the first surviving entry that has it and takes the value of the last, so
\* the output is the surviving entries in input order when their output keys
\* are pairwise different.
C4_OrderPreservation ==
  /\ ValidatorOk =>
       /\ key_calls = [i \in 1..Len(dict) |-> i]
       /\ FirstPlaceLastValue(v_result.dict, ValidPairs(dict))
       /\ DistinctOutputKeys(ValidPairs(dict)) => v_result.dict = ValidPairs(dict)
  /\ SerOk =>
       /\ InInputOrder(s_result.emitted)
       /\ s_call.method = "serde_serialize" => s_result.entries = s_result.emitted
       /\ s_call.method = "to_python" =>
            FirstPlaceLastValue(s_result.entries, s_result.emitted)
       /\ DistinctOutputKeys(s_result.emitted) =>
            s_result.entries = s_result.emitted /\ InInputOrder(s_result.entries)

\* C4 witness: the validator returned three entries as two, the first in its
\* place and the third in the place of the second, whose normalised key it has.
C4_Witness ==
  /\ ValidatorOk
  /\ Len(dict) = 3
  /\ v_result.dict = << <<"B", "V">>, <<"A", "W">> >>
  /\ ValidPairs(dict) = << <<"B", "V">>, <<"A", "V">>, <<"A", "W">> >>

\* C4 witness: the validator returned two entries for three, the later of two
\* entries with one normalised key in the place of the earlier.
C4_WitnessCollision ==
  /\ ValidatorOk
  /\ Len(dict) = 3
  /\ Len(v_result.dict) = 2
  /\ ~IsSubsequence(v_result.dict, ValidPairs(dict))

\* C4 witness: a serializer returned the fields "b" and "a" in this order, the
\* order of the input and not the order of the schema.
C4_WitnessSerializer ==
  /\ SerOk
  /\ Len(s_result.entries) = 2
  /\ s_result.entries[1][2].by = "b"
  /\ s_result.entries[2][2].by = "a"

(***************************************************************************)
(* What the claim about the fallback policy speaks of.                     *)
(***************************************************************************)
\* A call was made on the timedelta serializer with a value that is no
\* timedelta.
TdMismatch == td_call.method \in {"to_python", "json_key", "serde_serialize"}
              /\ ~IsPyDelta(td_call.value)

\* A call was made on the typed-dict serializer with a value that is no dict.
DictMismatch == s_call.method \in {"to_python", "serde_serialize"}
                /\ s_call.value.type # "dict"

\* C11 as stated: in every entry point of the timedelta serializer and of the
\* typed-dict serializer, a value that is not of the expected type leaves a
\* fallback diagnostic in the warnings and is serialized through the generic
\* fallback; the call does not fail.
C11_AsStated ==
  /\ TdMismatch =>
       /\ td_warnings = << <<"timedelta", td_call.value>> >>
       /\ td_result.tag = "Ok"
       /\ td_call.method = "json_key" => td_result.fallback_key = fallback_json_key(td_call.value)
       /\ td_call.method # "json_key" =>
            td_result.fallback = Fallback(td_call.value, td_call.include, td_call.exclude)
  /\ DictMismatch =>
       /\ s_warnings = << <<"typed-dict", s_call.value>> >>
       /\ s_result = [tag |-> "Ok",
                      fallback |-> Fallback(s_call.value, s_call.include, s_call.exclude)]

(***************************************************************************)
(* What the claims about the errors of the dict validator speak of.        *)
(***************************************************************************)
\* The entries the key validator, the value validator was applied to.
KeyValidated == Range(key_calls)

ValueValidated == Range(value_calls)

\* The error e of the key validator, of the value validator on entry i, as it
\* is to be recorded: the location read from the outermost item inwards.
TaggedKeyError(i, e) == [kind |-> e.kind, loc |-> <<dict[i][1], "[key]">> \o e.loc]

TaggedValueError(i, e) == [kind |-> e.kind, loc |-> <<dict[i][1]>> \o e.loc]

\* C12: every recoverable error of the key validator is recorded with "[key]"
\* pushed first and the original key of the entry pushed second in front of
\* the location the error came with, and nothing goes into the output for that
\* entry; every recoverable error of the value validator is recorded with the
\* original key alone pushed in front.
C12_LocationTagging ==
  /\ \A i \in KeyValidated :
       KeyFails(dict[i]) =>
          \A e \in Range(KeyValidate(dict[i][1]).errs) : TaggedKeyError(i, e) \in Range(errors)
  /\ \A i \in ValueValidated :
       ValueFails(dict[i]) =>
          \A e \in Range(ValueValidate(dict[i][2]).errs) : TaggedValueError(i, e) \in Range(errors)
  /\ \A n \in 1..Len(errors) :
       \/ \E i \in KeyValidated :
            /\ KeyFails(dict[i])
            /\ \E e \in Range(KeyValidate(dict[i][1]).errs) : errors[n] = TaggedKeyError(i, e)
       \/ \E i \in ValueValidated :
            /\ ValueFails(dict[i])
            /\ \E e \in Range(ValueValidate(dict[i][2]).errs) : errors[n] = TaggedValueError(i, e)
  /\ \A p \in 1..Len(output) :
       \E i \in ValueValidated :
          /\ ~Invalid(dict[i])
          /\ KeyValidate(dict[i][1]).tag = "Ok" /\ ValueValidate(dict[i][2]).tag = "Ok"
          /\ output[p][1] = KeyValidate(dict[i][1]).val
  /\ Len(output) <= Cardinality({i \in ValueValidated : ~Invalid(dict[i])})

\* C12 witness: the key validator failed on the second entry with an error
\* that came with a location, the value validator failed on the third, and
\* the first entry alone went into the output.
C12_Witness ==
  /\ Done
  /\ Len(dict) = 3
  /\ ~Invalid(dict[1]) /\ KeyFails(dict[2]) /\ ~ValueFails(dict[2])
  /\ ~KeyFails(dict[3]) /\ ValueFails(dict[3])
  /\ Len(output) = 1
  /\ \E n \in 1..Len(errors) : errors[n].loc = <<dict[2][1], "[key]", "0">>
  /\ \E n \in 1..Len(errors) : errors[n].loc = <<dict[3][1]>>

\* The key validator, the value validator returns an error on entry i that is
\* not LineErrors.
KeyFatal(i) == KeyValidate(dict[i][1]).tag \notin {"Ok", "LineErrors"}

ValueFatal(i) == ValueValidate(dict[i][2]).tag \notin {"Ok", "LineErrors"}

\* C13: when the key validator or the value validator returns an error on
\* entry i that is not LineErrors, the call returns that error at once: no
\* validator is applied to a later entry, nor to the value of entry i when the
\* error is the key validator's, and the recoverable errors recorded for the
\* earlier entries are not in the result.
C13_FatalAbort ==
  /\ \A i \in KeyValidated :
       KeyFatal(i) =>
          /\ Done
          /\ v_result = KeyValidate(dict[i][1])
          /\ key_calls = [n \in 1..i |-> n]
          /\ value_calls = [n \in 1..(i - 1) |-> n]
  /\ \A i \in ValueValidated :
       ValueFatal(i) =>
          /\ Done
          /\ v_result = ValueValidate(dict[i][2])
          /\ key_calls = [n \in 1..i |-> n]
          /\ value_calls = [n \in 1..i |-> n]

\* C13 witness: recoverable errors were recorded for the first entry, the key
\* validator failed fatally on the second of three, and the call returned.
C13_Witness ==
  /\ Done
  /\ Len(dict) = 3
  /\ errors # << >>
  /\ KeyFatal(2)
  /\ key_calls = <<1, 2>>
  /\ value_calls = <<1>>
  /\ v_result.tag = "InternalErr"

\* C13 witness: the value validator failed fatally on the second entry, whose
\* key had failed with recoverable errors.
C13_WitnessValue ==
  /\ Done
  /\ Len(dict) = 3
  /\ KeyFails(dict[2]) /\ ValueFatal(2)
  /\ value_calls = <<1, 2>>
  /\ v_result = [tag |-> "InternalErr", raised_by |-> "value_validator"]

(***************************************************************************)
(* What the claim about the fixed-offset timezone speaks of.               *)
(***************************************************************************)
\* The whole minutes of an offset, without its sign.
WholeMinutes(seconds) == Abs(seconds) \div 60

\* The signed HH:MM string of an offset: the sign of the offset, the hours and
\* the minutes of its whole minutes.
SignedHHMM(seconds) ==
  (IF seconds < 0 THEN "-" ELSE "+")
  \o Format02(WholeMinutes(seconds) \div 60) \o ":" \o Format02(WholeMinutes(seconds) % 60)

\* C14 as stated: __str__ and tzname return "UTC" exactly when the offset is
\* zero and otherwise the signed HH:MM string of the offset, so that offsets
\* that differ in sign or in whole minutes have different strings.
C14_AsStated ==
  (Called("__str__") \/ Called("tzname")) =>
     /\ (t_val.str = "UTC") <=> (t_in.seconds = 0)
     /\ t_in.seconds # 0 => t_val.str = SignedHHMM(t_in.seconds)
     /\ \A o \in TzOffsets :
          (o # 0 /\ t_in.seconds # 0
           /\ (WholeMinutes(o) # WholeMinutes(t_in.seconds) \/ (o < 0) # (t_in.seconds < 0)))
             => TzInfoStr(o) # t_val.str

(***************************************************************************)
(* What the claim about the propagation of the filter speaks of.           *)
(***************************************************************************)
\* What the filter computed for the input entry an emitted entry was made from.
FilterFor(em) ==
  key_filter(s_ser.filter, s_call.value.entries[Origin(em)][1], s_call.include, s_call.exclude)

\* C15 as stated: the value under every key the filter lets through, of a
\* declared field or of an extra key, in to_python and in serde_serialize, is
\* serialized with the include and exclude arguments the filter computed for
\* that key, not with those of the call.
C15_AsStated ==
  SerOk =>
    \A i \in 1..Len(s_result.emitted) :
       /\ FilterFor(s_result.emitted[i]).some
       /\ s_result.emitted[i][2].include = FilterFor(s_result.emitted[i]).v[1]
       /\ s_result.emitted[i][2].exclude = FilterFor(s_result.emitted[i]).v[2]

(***************************************************************************)
(* What the claim about the float constructors speaks of.                  *)
(***************************************************************************)
\* The input t in microseconds is WholeOf(t) * 1000000 + MicroOf(t), with
\* 0 <= MicroOf(t) < 1000000.
WholeOf(t) == IF t.neg /\ t.micros > 0 THEN -(t.secs + 1) ELSE IF t.neg THEN -t.secs ELSE t.secs

MicroOf(t) == IF t.neg /\ t.micros > 0 THEN MicrosPerSecond - t.micros ELSE t.micros

\* An i64 of small magnitude as an integer.
SmallI64(x) == IF x.neg THEN -ToInt(x.mag) ELSE ToInt(x.mag)

\* C16 as stated: for an input that is a whole number of microseconds,
\* float_as_datetime hands on a pair (whole, micro) with whole * 1000000 + micro
\* equal to the input in microseconds, and float_as_timedelta returns a
\* Duration whose signed total is the input in microseconds.
C16_AsStated ==
  /\ Called("float_as_datetime") =>
       (SmallI64(t_val.timestamp) - WholeOf(t_in)) * MicrosPerSecond
          + ToInt(t_val.timestamp_microseconds) = MicroOf(t_in)
  /\ Called("float_as_timedelta") =>
       /\ t_val.kind = "raw"
       /\ t_val.day * SecondsPerDay + t_val.second = t_in.secs
       /\ t_val.microsecond = t_in.micros
       /\ (t_in.secs # 0 \/ t_in.micros # 0) => (t_val.positive = ~t_in.neg)

====
